---- MODULE Spec2Model ----
(***************************************************************************)
(* A model of hnpixels: the Ratelimiter and the Endpoint activation and    *)
(* request protocol, Colour and Sketch, the Painter and the Protector.     *)
(* State is kept per endpoint of a Painter.  Spec drives the request() of  *)
(* one endpoint, SpecRL one Ratelimiter through its own interface, SpecUpd *)
(* update_ratelimiter over every header combination, SpecSketch and        *)
(* SpecColour the methods of Sketch and Colour over drawn arguments,       *)
(* SpecPainter the methods of a Painter over its three endpoints, SpecProt *)
(* the loop of Protector.activate over a small canvas.                     *)
(*                                                                         *)
(* Time is an integer number of seconds.  A blocking call (an HTTP         *)
(* exchange, time.sleep) lets time advance; everything else is instant.    *)
(* Header values are modelled after parsing (int()/float()) as integers.   *)
(***************************************************************************)
EXTENDS Integers, Sequences, FiniteSets, TLC

\* ---------------------------------------------------------------- bounds
\* Last instant of the modelled clock.
MaxTime == 6
\* Largest reset / cooldown the server declares on an Endpoint exchange.
MaxReset == 3
\* Largest latency of one HTTP exchange and largest oversleep of time.sleep.
MaxDelay == 1

\* ------------------------------------------------------------ vocabulary
\* The three Endpoints a Painter constructs.
Endpoints == {"get_pixel", "get_pixels", "set_pixel"}

\* A Python dict with no keys.
EmptyDict == [k \in {} |-> 0]

\* dict.update(): the keys of b win.
DictUpdate(a, b) ==
    [k \in (DOMAIN a) \cup (DOMAIN b) |-> IF k \in DOMAIN b THEN b[k] ELSE a[k]]

\* The default headers every Painter endpoint is constructed with.
PainterHeaders == [Authorization |-> "Bearer token"]

\* Endpoint.headers of each endpoint.
EndpointHeaders == [e \in Endpoints |-> PainterHeaders]

\* A call-specific header dict a caller may pass as request(headers=...):
\* one key that collides with the defaults and one that does not.
CallHeaders == {[Authorization |-> "Bearer other", Accept |-> "json"]}

\* The **kwargs of a request() call: none, params=..., or headers=... .
KwargsSet ==
    {EmptyDict, [params |-> "xy"]} \cup {[headers |-> H] : H \in CallHeaders}

\* Every subset of the rate-limit header names, with every small value.
RateKeys ==
    {"requests-remaining", "requests-limit", "requests-reset",
     "cooldown-reset", "retry-after"}

HeaderValues(k) ==
    CASE k = "requests-remaining" -> {0, 1}
      [] k = "requests-limit"     -> {1, 2}
      [] OTHER                    -> 0..MaxReset

AllHeaders ==
    UNION {{h \in [K -> 0..MaxReset] : \A k \in K : h[k] \in HeaderValues(k)} :
           K \in SUBSET RateKeys}

\* The header sets of the protocol: the requests-* triple, cooldown-reset
\* alone, retry-after alone, or no rate-limit header at all.
ProtocolHeaders ==
    {h \in AllHeaders :
        /\ DOMAIN h \in {{}, {"requests-remaining", "requests-limit", "requests-reset"},
                         {"cooldown-reset"}, {"retry-after"}}
        /\ ("requests-limit" \in DOMAIN h => h["requests-limit"] = 1)}

\* What the transport gives back: a status class ("ok", "tmr": 429, "err":
\* any other error status) and the response headers, or "neterr": a transport
\* failure with no response at all.
Responses ==
    {[status |-> s, headers |-> h] : s \in {"ok", "tmr", "err"}, h \in ProtocolHeaders}
        \cup {[status |-> "neterr", headers |-> EmptyDict]}

\* ------------------------------------------------------------ Ratelimiter
\* unlock() as it would be if limit took part in the test.
unlock_limit(guard, t, remaining, limit, reset) ==
    IF remaining = 0 \/ limit = 0 THEN t + reset ELSE guard

\* Ratelimiter.unlock: the new guard_time, given the old one and the time.
unlock(guard, t, remaining, limit, reset) ==
    IF remaining = 0 THEN t + reset ELSE guard

\* lock() sleeping one second short of the guard time.
lock_short(guard, current) ==
    IF current < guard THEN guard - current - 1 ELSE 0

\* lock() sleeping for guard_time itself instead of the time left.
lock_absolute(guard, current) ==
    IF current < guard THEN guard ELSE 0

\* lock() that never sleeps.
lock_nosleep(guard, current) == 0

\* Ratelimiter.lock: the duration passed to time.sleep (0: no sleep).
lock(guard, current) ==
    IF current < guard THEN guard - current ELSE 0

\* update_ratelimiter() looking for retry-after before cooldown-reset.
update_ratelimiter_swapped(guard, t, h) ==
    IF {"requests-remaining", "requests-limit", "requests-reset"} \subseteq DOMAIN h
    THEN [raised |-> FALSE,
          guard_time |-> unlock(guard, t, h["requests-remaining"],
                                h["requests-limit"], h["requests-reset"])]
    ELSE IF "retry-after" \in DOMAIN h
    THEN [raised |-> FALSE, guard_time |-> unlock(guard, t, 0, 0, h["retry-after"])]
    ELSE IF "cooldown-reset" \in DOMAIN h
    THEN [raised |-> FALSE, guard_time |-> unlock(guard, t, 0, 0, h["cooldown-reset"])]
    ELSE [raised |-> TRUE, guard_time |-> guard]

\* Endpoint.update_ratelimiter: the new guard_time and whether KeyError
\* ("No ratelimit headers found") is raised.
update_ratelimiter(guard, t, h) ==
    IF {"requests-remaining", "requests-limit", "requests-reset"} \subseteq DOMAIN h
    THEN [raised |-> FALSE,
          guard_time |-> unlock(guard, t, h["requests-remaining"],
                                h["requests-limit"], h["requests-reset"])]
    ELSE IF "cooldown-reset" \in DOMAIN h
    THEN [raised |-> FALSE, guard_time |-> unlock(guard, t, 0, 0, h["cooldown-reset"])]
    ELSE IF "retry-after" \in DOMAIN h
    THEN [raised |-> FALSE, guard_time |-> unlock(guard, t, 0, 0, h["retry-after"])]
    ELSE [raised |-> TRUE, guard_time |-> guard]

\* Endpoint.activate: the exception it raises ("none": returns normally) and
\* the new guard_time, for the probe's response r received at time t.
activate(guard, t, r) ==
    LET u == update_ratelimiter(guard, t, r.headers) IN
    CASE r.status = "neterr" -> [exc |-> "ConnectionError", guard_time |-> guard]
      [] r.status = "ok" ->
            [exc |-> IF u.raised THEN "KeyError" ELSE "none", guard_time |-> u.guard_time]
      [] r.status = "tmr" ->
            [exc |-> IF u.raised THEN "KeyError" ELSE "RatelimitError",
             guard_time |-> u.guard_time]
      [] OTHER -> [exc |-> "HTTPError", guard_time |-> guard]

\* What the logs keep of a response: its status and, when the code reads the
\* headers (ok and 429), whether they held a rate-limit header set.
LogEntry(r) ==
    [status |-> r.status,
     info |-> r.status \in {"ok", "tmr"} /\ ~update_ratelimiter(0, 0, r.headers).raised]

\* ------------------------------------------------------------------ state
VARIABLES
    now,          \* time.time()
    guard_time,   \* guard_time[e]: Ratelimiter.guard_time of endpoint e
    active,       \* active[e]: Endpoint._active
    pc,           \* position of the running request(): idle, probe1, probe2, lock, send
    cur,          \* the endpoint the running (or last) request() is on
    kwargs,       \* the **kwargs of the running request() (a local: empty when idle)
    probeLog,     \* outcomes of the activation probes of this request()
    realLog,      \* outcomes of the real HTTP requests of this request()
    wire,         \* headers= of the real HTTP request of this request()
    slept,        \* what lock() passed to time.sleep in the running request()
    result,       \* how the last request() ended
    rl_op,        \* the last direct Ratelimiter/update_ratelimiter operation
    painter,      \* the running (or last) Painter method call
    prot,         \* the Protector: its loop position, locals and the canvas
    fn,           \* a Colour / Sketch method applied to drawn arguments
    canvas        \* the remote canvas: its size and its bytes

vars == <<now, guard_time, active, pc, cur, kwargs, probeLog, realLog, wire,
          slept, result, rl_op, painter, prot, fn, canvas>>

\* What lies above the Endpoint layer.
upper == <<painter, prot, fn, canvas>>

\* No Painter method running, no Protector running, no function applied.
NoPainter == [op |-> "none", at |-> "done"]
NoProt == [pc |-> "none"]
NoFn == [op |-> "none"]
NoCanvas == [width |-> 0, height |-> 0, content |-> <<>>]

callvars == <<pc, cur, kwargs, probeLog, realLog, wire, result>>

\* rl_op: the operation's name, guard_time and time when it was called (g0,
\* t0), the time when it returned (t1), its arguments, and whether it raised.
NoOp == [name |-> "none", g0 |-> 0, t0 |-> 0, t1 |-> 0, remaining |-> 0,
         limit |-> 0, reset |-> 0, h |-> EmptyDict, raised |-> FALSE]

\* One Ratelimiter shared by every endpoint of the Painter.
LimiterShared(e) == "set_pixel"

\* Endpoint.__init__: self.ratelimiter = Ratelimiter(), a limiter of its own
\* for each endpoint; guard_time is indexed by the limiter's owner.
LimiterOf(e) == e

\* Endpoint.__init__ / Ratelimiter.__init__ of the three Painter endpoints,
\* constructed at time t, and no request() running.
EndpointInit(t) ==
    /\ now = t
    /\ guard_time = [e \in Endpoints |-> t]
    /\ active = [e \in Endpoints |-> FALSE]
    /\ pc = "idle"
    /\ cur = "set_pixel"
    /\ kwargs = EmptyDict
    /\ probeLog = <<>>
    /\ realLog = <<>>
    /\ wire = EmptyDict
    /\ slept = 0
    /\ result = "none"
    /\ rl_op = NoOp

Init ==
    /\ EndpointInit(0)
    /\ painter = NoPainter
    /\ prot = NoProt
    /\ fn = NoFn
    /\ canvas = NoCanvas

\* --------------------------------------------------------------- Endpoint
\* Control enters Endpoint.request(**kw) on endpoint e: the call frame.
Enter(e, kw) ==
    /\ pc = "idle"
    /\ cur' = e
    /\ kwargs' = kw
    /\ probeLog' = <<>>
    /\ realLog' = <<>>
    /\ wire' = EmptyDict
    /\ slept' = 0
    /\ result' = "pending"
    /\ pc' = IF active[e] THEN "lock" ELSE "probe1"
    /\ UNCHANGED <<now, guard_time, active, rl_op>>

\* A caller enters Endpoint.request(**kw) on endpoint e.
Call(e, kw) ==
    /\ Enter(e, kw)
    /\ UNCHANGED upper

\* request() giving up on the first 429 instead of probing a second time.
AfterProbe_noretry(which, exc) ==
    CASE exc = "none" -> [pc |-> "lock", result |-> "pending", active |-> TRUE]
      [] exc \in {"RatelimitError", "HTTPError"} ->
            [pc |-> "idle", result |-> "HTTPError", active |-> FALSE]
      [] OTHER -> [pc |-> "idle", result |-> exc, active |-> FALSE]

\* request() marking the endpoint active however the activation ended.
AfterProbe_always_active(which, exc) ==
    CASE exc = "none" -> [pc |-> "lock", result |-> "pending", active |-> TRUE]
      [] exc = "RatelimitError" /\ which = "probe1" ->
            [pc |-> "probe2", result |-> "pending", active |-> FALSE]
      [] exc \in {"RatelimitError", "HTTPError"} ->
            [pc |-> "idle", result |-> "HTTPError", active |-> TRUE]
      [] OTHER -> [pc |-> "idle", result |-> exc, active |-> TRUE]

\* request() going on to the real request without marking the endpoint active.
AfterProbe_never_active(which, exc) ==
    CASE exc = "none" -> [pc |-> "lock", result |-> "pending", active |-> FALSE]
      [] exc = "RatelimitError" /\ which = "probe1" ->
            [pc |-> "probe2", result |-> "pending", active |-> FALSE]
      [] exc \in {"RatelimitError", "HTTPError"} ->
            [pc |-> "idle", result |-> "HTTPError", active |-> FALSE]
      [] OTHER -> [pc |-> "idle", result |-> exc, active |-> FALSE]

\* What request() does with the outcome of its first / second activate():
\* the next position and, when it raises, the exception.
AfterProbe(which, exc) ==
    CASE exc = "none" -> [pc |-> "lock", result |-> "pending", active |-> TRUE]
      [] exc = "RatelimitError" /\ which = "probe1" ->
            [pc |-> "probe2", result |-> "pending", active |-> FALSE]
      [] exc \in {"RatelimitError", "HTTPError"} ->
            [pc |-> "idle", result |-> "HTTPError", active |-> FALSE]
      [] OTHER -> [pc |-> "idle", result |-> exc, active |-> FALSE]

\* activate() waiting on the limiter before its HEAD request.
ProbeWait_lock(guard, current) == lock(guard, current)

\* How long activate() waits before its HEAD request: it calls
\* requests.head at once, never self.ratelimiter.lock().
ProbeWait(guard, current) == 0

\* One activate() of the inactive branch of request(): the HEAD exchange
\* takes d seconds and is answered by r.
Probe(r, d) ==
    /\ pc \in {"probe1", "probe2"}
    /\ LET t == now + ProbeWait(guard_time[LimiterOf(cur)], now) + d
           a == activate(guard_time[LimiterOf(cur)], t, r)
           n == AfterProbe(pc, a.exc)
       IN /\ t <= MaxTime
          /\ a.guard_time <= MaxTime
          /\ now' = t
          /\ guard_time' = [guard_time EXCEPT ![LimiterOf(cur)] = a.guard_time]
          /\ active' = [active EXCEPT ![cur] = n.active]
          /\ probeLog' = Append(probeLog, LogEntry(r))
          /\ pc' = n.pc
          /\ result' = n.result
          /\ kwargs' = IF n.pc = "idle" THEN EmptyDict ELSE kwargs
    /\ UNCHANGED <<upper, cur, realLog, wire, slept, rl_op>>

\* self.ratelimiter.lock() in request(): sleeps, and may oversleep by o.
Lock(o) ==
    /\ pc = "lock"
    /\ LET d == lock(guard_time[LimiterOf(cur)], now) IN
        /\ slept' = d
        /\ now' = IF d > 0 THEN now + d + o ELSE now
        /\ now' <= MaxTime
    /\ pc' = "send"
    /\ UNCHANGED <<upper, guard_time, active, cur, kwargs, probeLog, realLog, wire,
                   result, rl_op>>

\* The headers dict request() builds from the defaults and kwargs["headers"].
MergedHeaders(e, kw) ==
    LET base == IF EndpointHeaders[e] # EmptyDict
                THEN DictUpdate(EmptyDict, EndpointHeaders[e]) ELSE EmptyDict
    IN IF "headers" \in DOMAIN kw THEN DictUpdate(base, kw["headers"]) ELSE base

\* Whether requests.request(method, url, headers=..., **kwargs) can be
\* called at all: a keyword given twice is a TypeError.
CallBinds(kw) == ~("headers" \in DOMAIN kw)

\* request() raising on a 429 without updating the limiter first.
AfterResponse_no_update(guard, t, r) ==
    LET u == update_ratelimiter(guard, t, r.headers) IN
    CASE r.status = "neterr" -> [result |-> "ConnectionError", guard_time |-> guard]
      [] r.status = "ok" ->
            [result |-> IF u.raised THEN "KeyError" ELSE "ok", guard_time |-> u.guard_time]
      [] r.status = "tmr" -> [result |-> "RatelimitError", guard_time |-> guard]
      [] OTHER -> [result |-> "HTTPError", guard_time |-> guard]

\* What request() does with the response to the real request.
AfterResponse(guard, t, r) ==
    LET u == update_ratelimiter(guard, t, r.headers) IN
    CASE r.status = "neterr" -> [result |-> "ConnectionError", guard_time |-> guard]
      [] r.status = "ok" ->
            [result |-> IF u.raised THEN "KeyError" ELSE "ok", guard_time |-> u.guard_time]
      [] r.status = "tmr" ->
            [result |-> IF u.raised THEN "KeyError" ELSE "RatelimitError",
             guard_time |-> u.guard_time]
      [] OTHER -> [result |-> "HTTPError", guard_time |-> guard]

\* requests.request(...) of request(), answered by r after d seconds, and
\* the handling of the response.
Send(r, d) ==
    /\ pc = "send"
    /\ CallBinds(kwargs)
    /\ now + d <= MaxTime
    /\ LET a == AfterResponse(guard_time[LimiterOf(cur)], now + d, r) IN
        /\ a.guard_time <= MaxTime
        /\ now' = now + d
        /\ guard_time' = [guard_time EXCEPT ![LimiterOf(cur)] = a.guard_time]
        /\ result' = a.result
    /\ wire' = MergedHeaders(cur, kwargs)
    /\ realLog' = Append(realLog, LogEntry(r))
    /\ pc' = "idle"
    /\ kwargs' = EmptyDict
    /\ slept' = 0
    /\ UNCHANGED <<upper, active, cur, probeLog, rl_op>>

\* requests.request(...) rejects the duplicated headers keyword: nothing is sent.
SendTypeError ==
    /\ pc = "send"
    /\ ~CallBinds(kwargs)
    /\ result' = "TypeError"
    /\ pc' = "idle"
    /\ kwargs' = EmptyDict
    /\ slept' = 0
    /\ UNCHANGED <<upper, now, guard_time, active, cur, probeLog, realLog, wire, rl_op>>

\* Time passes between two calls.
Idle ==
    /\ pc = "idle"
    /\ now < MaxTime
    /\ now' = now + 1
    /\ UNCHANGED <<upper, guard_time, active, callvars, slept, rl_op>>

\* A single caller drives the request() of one Endpoint, the write endpoint.
Next ==
    \/ \E kw \in KwargsSet : Call("set_pixel", kw)
    \/ \E r \in Responses, d \in 0..MaxDelay : Probe(r, d)
    \/ \E o \in 0..MaxDelay : Lock(o)
    \/ \E r \in Responses, d \in 0..MaxDelay : Send(r, d)
    \/ SendTypeError
    \/ Idle

Spec == Init /\ [][Next]_vars

\* ------------------------------------------- one Ratelimiter, used directly
\* The limiter of endpoint cur is driven through its own interface and
\* through Endpoint.update_ratelimiter, with no request() running.

\* Arguments a direct caller passes to unlock().
Remainings == -1..1
Limits == 0..2

\* ratelimiter.unlock(remaining, limit, reset)
RLUnlock(remaining, limit, reset) ==
    /\ pc = "idle"
    /\ LET g == unlock(guard_time[cur], now, remaining, limit, reset) IN
        /\ g <= MaxTime
        /\ guard_time' = [guard_time EXCEPT ![cur] = g]
    /\ rl_op' = [NoOp EXCEPT !.name = "unlock", !.g0 = guard_time[cur], !.t0 = now,
                              !.t1 = now, !.remaining = remaining, !.limit = limit,
                              !.reset = reset]
    /\ slept' = 0
    /\ UNCHANGED <<upper, now, active, callvars>>

\* ratelimiter.lock(); time.sleep may oversleep by o.
RLLock(o) ==
    /\ pc = "idle"
    /\ LET d == lock(guard_time[cur], now) IN
        /\ slept' = d
        /\ now' = IF d > 0 THEN now + d + o ELSE now
        /\ now' <= MaxTime
    /\ rl_op' = [NoOp EXCEPT !.name = "lock", !.g0 = guard_time[cur], !.t0 = now,
                              !.t1 = now']
    /\ UNCHANGED <<upper, guard_time, active, callvars>>

\* endpoint.update_ratelimiter(h), applied once to the drawn limiter state.
RLUpdate(h) ==
    /\ pc = "idle"
    /\ rl_op = NoOp
    /\ LET u == update_ratelimiter(guard_time[cur], now, h) IN
        /\ guard_time' = [guard_time EXCEPT ![cur] = u.guard_time]
        /\ rl_op' = [NoOp EXCEPT !.name = "update_ratelimiter", !.g0 = guard_time[cur],
                                  !.t0 = now, !.t1 = now, !.h = h, !.raised = u.raised]
    /\ slept' = 0
    /\ UNCHANGED <<upper, now, active, callvars>>

\* Time passes between two operations.
RLTick ==
    /\ pc = "idle"
    /\ now < MaxTime
    /\ now' = now + 1
    /\ UNCHANGED <<upper, guard_time, active, callvars, slept, rl_op>>

NextRL ==
    \/ \E remaining \in Remainings, limit \in Limits, reset \in 0..MaxTime :
            RLUnlock(remaining, limit, reset)
    \/ \E o \in 0..MaxDelay : RLLock(o)
    \/ RLTick

SpecRL == Init /\ [][NextRL]_vars

\* update_ratelimiter as a function of (guard_time, now, headers): every
\* combination of rate-limit headers, on a limiter whose guard_time is
\* behind, at or ahead of the clock (a warmup, an earlier cooldown).
InitUpd ==
    /\ now \in 0..MaxReset
    /\ guard_time \in {[[e \in Endpoints |-> 0] EXCEPT !["set_pixel"] = g] : g \in 0..MaxReset}
    /\ active = [e \in Endpoints |-> FALSE]
    /\ pc = "idle"
    /\ cur = "set_pixel"
    /\ kwargs = EmptyDict
    /\ probeLog = <<>>
    /\ realLog = <<>>
    /\ wire = EmptyDict
    /\ slept = 0
    /\ result = "none"
    /\ rl_op = NoOp
    /\ painter = NoPainter
    /\ prot = NoProt
    /\ fn = NoFn
    /\ canvas = NoCanvas

NextUpd == \E h \in AllHeaders : RLUpdate(h)

SpecUpd == InitUpd /\ [][NextUpd]_vars

\* ------------------------------------------------------- Colour and Sketch
\* Largest width and height of a drawn Sketch.
MaxDim == 2

\* What a method gives back: the exception it raises ("none": it returns)
\* and the value it returns.
Returned(v) == [exc |-> "none", val |-> v]
Raised(e) == [exc |-> e, val |-> "none"]

\* Colour.from_triple: a Colour of the three elements, ValueError unless
\* there are exactly three.
from_triple(triple) ==
    IF Len(triple) # 3 THEN Raised("ValueError")
    ELSE Returned([r |-> triple[1], g |-> triple[2], b |-> triple[3]])

\* Colour.tuple.
tuple(c) == <<c.r, c.g, c.b>>

\* Python's seq[a:b] on a sequence indexed from 0: a negative bound counts
\* from the end, and both bounds are clamped to the sequence.
PySlice(seq, a, b) ==
    LET n == Len(seq)
        norm(i) == IF i < 0 THEN (IF n + i < 0 THEN 0 ELSE n + i)
                   ELSE (IF i > n THEN n ELSE i)
        lo == norm(a)
        hi == norm(b)
    IN [k \in 1..(IF hi > lo THEN hi - lo ELSE 0) |-> seq[lo + k]]

\* Sketch.__getitem__ reading the buffer column by column.
getitem_colmajor(sketch, x, y) ==
    LET x1 == IF x < 0 THEN sketch.width + x ELSE x
        y1 == IF y < 0 THEN sketch.height + y ELSE y
        index == (y1 + sketch.height * x1) * 3
    IN from_triple(PySlice(sketch.content, index, index + 3))

\* Sketch.__getitem__((x, y)).
getitem(sketch, x, y) ==
    LET x1 == IF x < 0 THEN sketch.width + x ELSE x
        y1 == IF y < 0 THEN sketch.height + y ELSE y
        index == (x1 + sketch.width * y1) * 3
    IN from_triple(PySlice(sketch.content, index, index + 3))

\* A canvas buffer of n bytes, every byte a function of its offset.
Pattern(seed, n) == [i \in 1..n |-> ((i - 1) * 37 + seed) % 256]
PatternSeeds == {0, 200}

\* The Sketches of up to MaxDim x MaxDim pixels over the patterns.
Sketches ==
    {[content |-> Pattern(seed, w * h * 3), width |-> w, height |-> h] :
        seed \in PatternSeeds, w \in 1..MaxDim, h \in 1..MaxDim}

\* A Sketch and a key, in range or one step outside it on either side.
InitSketch ==
    /\ EndpointInit(0)
    /\ painter = NoPainter
    /\ prot = NoProt
    /\ canvas = NoCanvas
    /\ \E s \in Sketches :
         \E x \in -(s.width + 1)..s.width, y \in -(s.height + 1)..s.height :
            fn = [op |-> "getitem", sketch |-> s, x |-> x, y |-> y,
                  done |-> FALSE, out |-> Raised("none")]

\* sketch[x, y] is evaluated.
SketchGetitem ==
    /\ fn.op = "getitem"
    /\ ~fn.done
    /\ fn' = [fn EXCEPT !.done = TRUE, !.out = getitem(fn.sketch, fn.x, fn.y)]
    /\ UNCHANGED <<now, guard_time, active, callvars, slept, rl_op, painter, prot, canvas>>

NextSketch == SketchGetitem

SpecSketch == InitSketch /\ [][NextSketch]_vars

\* The hexadecimal digits in value order, and the letters in both cases.
HexDigits == <<"0", "1", "2", "3", "4", "5", "6", "7", "8", "9",
               "a", "b", "c", "d", "e", "f">>
LowerLetters == <<"a", "b", "c", "d", "e", "f">>
UpperLetters == <<"A", "B", "C", "D", "E", "F">>

\* str.upper() of one character and of a string (a sequence of characters).
UpperChar(ch) ==
    IF \E i \in 1..6 : LowerLetters[i] = ch
    THEN UpperLetters[CHOOSE i \in 1..6 : LowerLetters[i] = ch]
    ELSE ch
Upper(str) == [i \in 1..Len(str) |-> UpperChar(str[i])]

\* str.lower() of one character.
LowerChar(ch) ==
    IF \E i \in 1..6 : UpperLetters[i] = ch
    THEN LowerLetters[CHOOSE i \in 1..6 : UpperLetters[i] = ch]
    ELSE ch

\* Whether ch is a hexadecimal digit of either case, and its value.
IsHexChar(ch) == \E i \in 1..16 : HexDigits[i] = LowerChar(ch)
HexVal(ch) == (CHOOSE i \in 1..16 : HexDigits[i] = LowerChar(ch)) - 1

\* bytes.fromhex(str): one byte per pair of digits, ValueError on an odd
\* length or on a character that is no hexadecimal digit.
fromhex(str) ==
    IF Len(str) % 2 # 0 \/ \E i \in 1..Len(str) : ~IsHexChar(str[i])
    THEN Raised("ValueError")
    ELSE Returned([k \in 1..(Len(str) \div 2) |->
                      16 * HexVal(str[2 * k - 1]) + HexVal(str[2 * k])])

\* Colour.from_hex.
from_hex(hexrep) ==
    IF Len(hexrep) # 6 THEN Raised("ValueError")
    ELSE LET bytes == fromhex(hexrep)
         IN IF bytes.exc # "none" THEN bytes ELSE from_triple(bytes.val)

\* format(n, "x") of n >= 0: the lowercase hexadecimal digits of n.
RECURSIVE FormatX(_)
FormatX(n) ==
    IF n < 16 THEN <<HexDigits[n + 1]>>
    ELSE FormatX(n \div 16) \o <<HexDigits[(n % 16) + 1]>>

\* format(n, "0>2x"): right-aligned in a field of two, filled with "0".
Format02x(n) ==
    LET d == FormatX(n) IN IF Len(d) < 2 THEN <<"0">> \o d ELSE d

\* Colour.hex formatting each channel without the fill.
hex_nofill(c) == Upper(FormatX(c.r) \o FormatX(c.g) \o FormatX(c.b))

\* Colour.hex.
hex(c) == Upper(Format02x(c.r) \o Format02x(c.g) \o Format02x(c.b))

\* The characters the drawn hex strings are made of, and the drawn channels.
SampleChars == {"0", "9", "a", "A", "f"}
SampleChannels == {0, 1, 15, 16, 255}

\* A 6-digit hex string for from_hex(s).hex(), or a Colour for
\* from_triple(c.tuple()).
InitColour ==
    /\ EndpointInit(0)
    /\ painter = NoPainter
    /\ prot = NoProt
    /\ canvas = NoCanvas
    /\ \/ \E str \in [1..6 -> SampleChars] :
            fn = [op |-> "from_hex.hex", arg |-> str, done |-> FALSE,
                  out |-> Raised("none")]
       \/ \E r \in SampleChannels, g \in SampleChannels, b \in SampleChannels :
            fn = [op |-> "tuple.from_triple", arg |-> [r |-> r, g |-> g, b |-> b],
                  done |-> FALSE, out |-> Raised("none")]

\* Colour.from_hex(s).hex() is evaluated.
ColourHexRoundTrip ==
    /\ fn.op = "from_hex.hex"
    /\ ~fn.done
    /\ LET c == from_hex(fn.arg)
       IN fn' = [fn EXCEPT !.done = TRUE,
                           !.out = IF c.exc # "none" THEN c ELSE Returned(hex(c.val))]
    /\ UNCHANGED <<now, guard_time, active, callvars, slept, rl_op, painter, prot, canvas>>

\* Colour.from_triple(c.tuple()) is evaluated.
ColourTripleRoundTrip ==
    /\ fn.op = "tuple.from_triple"
    /\ ~fn.done
    /\ fn' = [fn EXCEPT !.done = TRUE, !.out = from_triple(tuple(fn.arg))]
    /\ UNCHANGED <<now, guard_time, active, callvars, slept, rl_op, painter, prot, canvas>>

NextColour == ColourHexRoundTrip \/ ColourTripleRoundTrip

SpecColour == InitColour /\ [][NextColour]_vars

\* ---------------------------------------------------------------- Painter
\* How long before the end of the clock the Painter is constructed.
PainterSpan == 1

\* The remote canvases: one row of one or two pixels.
Canvases ==
    {[width |-> w, height |-> 1, content |-> Pattern(0, w * 3)] : w \in 1..2}

\* The responses the Painter's endpoints get: those that declare a reset or
\* cooldown of at most one second.
PainterResponses ==
    {r \in Responses : \A k \in DOMAIN r.headers : r.headers[k] <= 1}

\* The "rgb" strings /get_pixel answers with, and the colours paint() is
\* asked for.
PixelBodies == {<<"0", "0", "0", "0", "0", "0">>, <<"f", "f", "0", "0", "a", "a">>}
Targets == {[r |-> 255, g |-> 0, b |-> 170]}

\* The kwargs Painter passes to Endpoint.request().
ColourKwargs == [params |-> "xy"]
PaintKwargs == [json |-> "xyrgb"]

\* The state of the write endpoint.
WriteState == [guard_time |-> guard_time[LimiterOf("set_pixel")],
               active |-> active["set_pixel"]]
Dropped == [dropped |-> TRUE]

\* A Painter method that has just been entered: op its name, at its
\* position, touched the endpoints whose request() it has entered, w0 the
\* state of the write endpoint when paint() was entered (dropped once paint()
\* goes on to the write), pre how the pre-check of paint() ended, out how the
\* method ended, val what it returned.
PainterCall(op, check, target, at, touched, w0) ==
    [op |-> op, check |-> check, target |-> target, at |-> at,
     touched |-> touched, w0 |-> w0, pre |-> "none", out |-> "pending",
     content |-> <<>>, val |-> "none"]

\* A Painter method is leaving: the frame of the request() it called is gone.
FrameDropped ==
    /\ probeLog' = <<>>
    /\ realLog' = <<>>
    /\ wire' = EmptyDict
    /\ result' = "none"
    /\ UNCHANGED <<now, guard_time, active, pc, cur, kwargs, slept, rl_op>>

PainterFree == pc = "idle" /\ painter.at = "done"

\* A Painter is constructed, PainterSpan before the end of the clock.
InitPainter ==
    /\ EndpointInit(MaxTime - PainterSpan)
    /\ painter = NoPainter
    /\ prot = NoProt
    /\ fn = NoFn
    /\ canvas \in Canvases

\* paint(x, y, target, check=check) is called: with check it enters
\* colour(x, y), without it goes straight to the write.
PaintStart(check, target) ==
    /\ PainterFree
    /\ IF check
       THEN /\ Enter("get_pixel", ColourKwargs)
            /\ painter' = PainterCall("paint", TRUE, target, "precheck",
                                      {"get_pixel"}, WriteState)
       ELSE /\ Enter("set_pixel", PaintKwargs)
            /\ painter' = PainterCall("paint", FALSE, target, "write",
                                      {"set_pixel"}, Dropped)
    /\ UNCHANGED <<prot, fn, canvas>>

\* paint(): except requests.HTTPError (RatelimitError is a subclass).
PaintCatches(exc) == exc \in {"HTTPError", "RatelimitError"}

\* paint() writing whatever colour() returned.
AlreadyPainted_never(read, target) == FALSE

\* paint(): self.colour(x, y) == colour, for a colour() that returned.
AlreadyPainted(read, target) == read.exc = "none" /\ read.val = target

\* paint() after its colour(x, y) came back: body is the "rgb" of the
\* response when there is one.
PaintChecked(body) ==
    /\ pc = "idle"
    /\ painter.op = "paint" /\ painter.at = "precheck"
    /\ LET read == IF result = "ok" THEN from_hex(body) ELSE Raised(result)
           pre == IF read.exc # "none" THEN read.exc
                  ELSE IF read.val = painter.target THEN "equal" ELSE "differs"
       IN IF AlreadyPainted(read, painter.target)
          THEN /\ painter' = [painter EXCEPT !.at = "done", !.pre = pre,
                                             !.out = "short_circuit"]
               /\ FrameDropped
          ELSE IF read.exc = "none" \/ PaintCatches(read.exc)
          THEN /\ Enter("set_pixel", PaintKwargs)
               /\ painter' = [painter EXCEPT !.at = "write", !.pre = pre,
                                 !.w0 = Dropped,
                                 !.touched = painter.touched \cup {"set_pixel"}]
          ELSE /\ painter' = [painter EXCEPT !.at = "done", !.pre = pre,
                                             !.out = read.exc]
               /\ FrameDropped
    /\ UNCHANGED <<prot, fn, canvas>>

\* paint() after its write request came back.
PaintWritten ==
    /\ pc = "idle"
    /\ painter.op = "paint" /\ painter.at = "write"
    /\ painter' = [painter EXCEPT !.at = "done",
                      !.out = IF result = "ok" THEN "returned" ELSE result]
    /\ FrameDropped
    /\ UNCHANGED <<prot, fn, canvas>>

\* colour(x, y) is called.
ColourStart ==
    /\ PainterFree
    /\ Enter("get_pixel", ColourKwargs)
    /\ painter' = PainterCall("colour", FALSE, "none", "read", {"get_pixel"}, Dropped)
    /\ UNCHANGED <<prot, fn, canvas>>

\* colour(x, y) after its request came back.
ColourRead(body) ==
    /\ pc = "idle"
    /\ painter.op = "colour" /\ painter.at = "read"
    /\ LET read == IF result = "ok" THEN from_hex(body) ELSE Raised(result)
       IN painter' = [painter EXCEPT !.at = "done",
                         !.out = IF read.exc = "none" THEN "returned" ELSE read.exc,
                         !.val = read.val]
    /\ FrameDropped
    /\ UNCHANGED <<prot, fn, canvas>>

\* sketch() is called.
SketchStart ==
    /\ PainterFree
    /\ Enter("get_pixels", EmptyDict)
    /\ painter' = PainterCall("sketch", FALSE, "none", "pixels", {"get_pixels"}, Dropped)
    /\ UNCHANGED <<prot, fn, canvas>>

\* sketch() after its /get_pixels request came back: it keeps
\* response.content and goes on to size().
SketchPixels ==
    /\ pc = "idle"
    /\ painter.op = "sketch" /\ painter.at = "pixels"
    /\ painter' = IF result = "ok"
                  THEN [painter EXCEPT !.at = "size", !.content = canvas.content]
                  ELSE [painter EXCEPT !.at = "done", !.out = result]
    /\ FrameDropped
    /\ UNCHANGED <<prot, fn, canvas>>

\* size() is called on its own.
SizeStart ==
    /\ PainterFree
    /\ painter' = PainterCall("size", FALSE, "none", "size", {}, Dropped)
    /\ UNCHANGED <<now, guard_time, active, callvars, slept, rl_op, prot, fn, canvas>>

\* size(): requests.get(/get_size) answered after d seconds with a status
\* class, raise_for_status(), and the width and height of the body; called
\* from sketch() it completes the Sketch.
SizeExchange(status, d) ==
    /\ pc = "idle"
    /\ painter.at = "size"
    /\ now + d <= MaxTime
    /\ now' = now + d
    /\ painter' =
          IF status = "ok"
          THEN [painter EXCEPT !.at = "done", !.out = "returned",
                  !.content = <<>>,
                  !.val = IF painter.op = "sketch"
                          THEN [content |-> painter.content,
                                width |-> canvas.width, height |-> canvas.height]
                          ELSE <<canvas.width, canvas.height>>]
          ELSE [painter EXCEPT !.at = "done", !.content = <<>>,
                  !.out = IF status = "neterr" THEN "ConnectionError" ELSE "HTTPError"]
    /\ UNCHANGED <<guard_time, active, callvars, slept, rl_op, prot, fn, canvas>>

\* Another party resizes the remote canvas.
Resize(c) ==
    /\ c # canvas
    /\ canvas' = c
    /\ UNCHANGED <<now, guard_time, active, callvars, slept, rl_op, painter, prot, fn>>

\* One caller uses the methods of a Painter, one call at a time; the
\* requests of the three endpoints run through Probe, Lock and Send.
NextPainter ==
    \/ \E check \in BOOLEAN, target \in Targets : PaintStart(check, target)
    \/ \E body \in PixelBodies : PaintChecked(body)
    \/ PaintWritten
    \/ ColourStart
    \/ \E body \in PixelBodies : ColourRead(body)
    \/ SketchStart
    \/ SketchPixels
    \/ SizeStart
    \/ \E status \in {"ok", "tmr", "err", "neterr"}, d \in 0..MaxDelay :
          SizeExchange(status, d)
    \/ \E c \in Canvases : Resize(c)
    \/ \E r \in PainterResponses, d \in 0..MaxDelay : Probe(r, d)
    \/ \E o \in 0..MaxDelay : Lock(o)
    \/ \E r \in PainterResponses, d \in 0..MaxDelay : Send(r, d)
    \/ Idle

SpecPainter == InitPainter /\ [][NextPainter]_vars

\* -------------------------------------------------------------- Protector
\* The Protector is modelled over the outcomes of the Painter's methods:
\* sketch() returns the canvas as it is or raises, paint() returns with the
\* pixel set or raises; the limiters and the clock stay out of it.

\* Consecutive passes without a paint() call that are counted.
MaxPasses == 2
\* Pixels another party paints during one pass, at most.
MaxVandal == 1

\* The two colours on the canvas and in the images.
ColA == [r |-> 0, g |-> 0, b |-> 0]
ColB == [r |-> 255, g |-> 0, b |-> 170]

\* The remote canvas: 2 x 2 pixels, each ColA or ColB, as the bytes of
\* /get_pixels in row-major order.
BytesOf(c) == <<c.r, c.g, c.b>>
ProtCanvases ==
    {[width |-> 2, height |-> 2,
      content |-> BytesOf(p[1]) \o BytesOf(p[2]) \o BytesOf(p[3]) \o BytesOf(p[4])] :
        p \in [1..4 -> {ColA, ColB}]}

\* The canvas with pixel (x, y) set to colour c (0 <= x < width, 0 <= y).
SetPixel(cv, x, y, c) ==
    LET off == (x + cv.width * y) * 3
    IN [cv EXCEPT !.content =
           [i \in 1..Len(cv.content) |->
               IF i = off + 1 THEN c.r ELSE IF i = off + 2 THEN c.g
               ELSE IF i = off + 3 THEN c.b ELSE cv.content[i]]]

\* An RGBA pixel of an image, and image[y, x] of an image kept row by row.
Rgba(c, alpha) == [r |-> c.r, g |-> c.g, b |-> c.b, a |-> alpha]
ImagePixel(image, y, x) == image.px[y * image.w + x + 1]

\* The jobs: a row of an opaque and a transparent pixel at the top left, a
\* column of two opaque pixels placed from the bottom right by a negative
\* origin, one opaque pixel at the bottom left.
JobRow == [image |-> [h |-> 1, w |-> 2, px |-> <<Rgba(ColA, 255), Rgba(ColB, 0)>>],
           origin |-> <<0, 0>>]
JobColumn == [image |-> [h |-> 2, w |-> 1, px |-> <<Rgba(ColB, 255), Rgba(ColA, 255)>>],
              origin |-> <<-1, -2>>]
JobDot == [image |-> [h |-> 1, w |-> 1, px |-> <<Rgba(ColB, 255)>>],
           origin |-> <<0, 1>>]
JobSquare == [image |-> [h |-> 2, w |-> 2,
                         px |-> <<Rgba(ColA, 255), Rgba(ColB, 255),
                                  Rgba(ColB, 0), Rgba(ColA, 255)>>],
              origin |-> <<0, 0>>]
JobLists ==
    {<<JobRow>>, <<JobColumn>>, <<JobDot>>, <<JobSquare>>,
     <<JobRow, JobColumn>>, <<JobColumn, JobDot>>, <<JobDot, JobRow>>}

\* What sketch() and paint() raise when they fail (Endpoint.request, size()).
PainterErrors == {"RatelimitError", "HTTPError", "KeyError", "ConnectionError"}

\* Whether "except core.NetworkError" handles exc.  hnpixels.core defines no
\* NetworkError: evaluating the clause raises AttributeError, whatever exc is.
ProtectorCatches(exc) == FALSE

\* image[y, x, 3] != 0 taking every pixel.
Opaque_all(p) == TRUE

\* image[y, x, 3] != 0.
Opaque(p) == p.a # 0

\* The scan painting every pixel it looks at.
NeedsPaint_always(current, goal) == TRUE

\* The scan never finding a pixel to paint.
NeedsPaint_never(current, goal) == FALSE

\* current != goal.
NeedsPaint(current, goal) == current # goal

\* The loops running over x outside and y inside.
PixelAt_colmajor(image, k) == <<k \div image.h, k % image.h>>

\* for y in range(image.shape[0]): for x in range(image.shape[1]): the
\* (x, y) of turn k of the loops, k counted from 0.
PixelAt(image, k) == <<k % image.w, k \div image.w>>

\* No pixel of the job looked at yet.
NoPixel == <<-1, -1>>

\* imageX / imageY: a negative origin component counts from the far edge
\* of the sketch.
ResolveOrigin(origin, sk) ==
    <<IF origin[1] < 0 THEN sk.width + origin[1] ELSE origin[1],
      IF origin[2] < 0 THEN sk.height + origin[2] ELSE origin[2]>>

\* The canvas coordinates at which cv differs from the goal of an opaque
\* pixel of some job.
Mismatched(jobs, cv) ==
    {c \in (0..(cv.width - 1)) \X (0..(cv.height - 1)) :
        \E j \in 1..Len(jobs) :
            LET job == jobs[j]
                o == ResolveOrigin(job.origin, cv)
            IN \E y \in 0..(job.image.h - 1), x \in 0..(job.image.w - 1) :
                  LET p == ImagePixel(job.image, y, x)
                  IN /\ p.a # 0
                     /\ c = <<o[1] + x, o[2] + y>>
                     /\ getitem(cv, c[1], c[2]) # from_triple(<<p.r, p.g, p.b>>)}

\* The locals and history of a pass that is starting over canvas cv: clean
\* while every sketch fetched in the pass shows every goal, npaint the
\* paint() calls of the pass (0, 1, or 2 for more), single whether exactly
\* one coordinate was mismatched when the pass began, vandals the pixels
\* another party has painted since, streak the passes without a paint() call
\* that came just before, at the (x, y) of the image pixel the scan of the
\* job looked at last.
PassStart(jobs, cv, streak) ==
    [pc |-> "fetch", jobs |-> jobs, j |-> 1, k |-> 0, origin |-> <<0, 0>>,
     at |-> NoPixel,
     sketch |-> NoCanvas, npaint |-> 0, clean |-> TRUE,
     single |-> Cardinality(Mismatched(jobs, cv)) = 1, vandals |-> 0,
     streak |-> streak, call |-> "none", cause |-> "none", exc |-> "none"]

\* activate() left by exception exc, raised while handling cause: its
\* locals are gone.
Crashed(exc, cause) ==
    [PassStart(prot.jobs, NoCanvas, 0) EXCEPT
        !.pc = "crashed", !.j = prot.j, !.exc = exc, !.cause = cause,
        !.single = FALSE]

\* Protector.activate(jobs) is called.
InitProt ==
    /\ EndpointInit(0)
    /\ painter = NoPainter
    /\ fn = NoFn
    /\ canvas \in ProtCanvases
    /\ \E jobs \in JobLists : prot = PassStart(jobs, canvas, 0)

\* An exception exc of call reaches its except clause.
Excepted(call, exc, continued) ==
    IF ProtectorCatches(exc)
    THEN continued
    ELSE Crashed("AttributeError", [call |-> call, exc |-> exc, pc |-> prot.pc])

\* The job after the current one, or the sleep after the last one.
NextJob ==
    IF prot.j < Len(prot.jobs)
    THEN [prot EXCEPT !.pc = "fetch", !.j = prot.j + 1, !.k = 0, !.at = NoPixel]
    ELSE [prot EXCEPT !.pc = "sleep", !.k = 0, !.at = NoPixel]

\* sketch = self.painter.sketch() at the head of a job.
FetchSketch(outcome) ==
    /\ prot.pc = "fetch"
    /\ prot' =
         IF outcome = "ok"
         THEN [prot EXCEPT !.pc = "scan", !.k = 0, !.sketch = canvas,
                 !.origin = ResolveOrigin(prot.jobs[prot.j].origin, canvas),
                 !.clean = prot.clean /\ Mismatched(prot.jobs, canvas) = {}]
         ELSE Excepted("sketch", outcome, NextJob)
    /\ UNCHANGED <<now, guard_time, active, callvars, slept, rl_op, painter, fn, canvas>>

\* One turn of the loops over y and x: pixel k of the image in row-major
\* order, or the end of the job.
ScanPixel ==
    /\ prot.pc = "scan"
    /\ LET image == prot.jobs[prot.j].image
           xy == PixelAt(image, prot.k)
           x == xy[1]
           y == xy[2]
       IN prot' =
            IF prot.k >= image.h * image.w THEN NextJob
            ELSE LET p == ImagePixel(image, y, x)
                     goal == from_triple(<<p.r, p.g, p.b>>)
                     canvasX == prot.origin[1] + x
                     canvasY == prot.origin[2] + y
                     current == getitem(prot.sketch, canvasX, canvasY)
                 IN IF ~Opaque(p) THEN [prot EXCEPT !.k = prot.k + 1, !.at = xy]
                    ELSE IF current.exc # "none"
                    THEN Crashed(current.exc, [call |-> "getitem", exc |-> current.exc,
                                               pc |-> "scan"])
                    ELSE IF NeedsPaint(current, goal)
                    THEN [prot EXCEPT !.pc = "paint", !.at = xy,
                            !.npaint = IF prot.npaint < 2 THEN prot.npaint + 1 ELSE 2,
                            !.call = [x |-> canvasX, y |-> canvasY,
                                      colour |-> goal.val]]
                    ELSE [prot EXCEPT !.k = prot.k + 1, !.at = xy]
    /\ UNCHANGED <<now, guard_time, active, callvars, slept, rl_op, painter, fn, canvas>>

\* self.painter.paint(canvasX, canvasY, goal) comes back.
PaintReturns(outcome) ==
    /\ prot.pc = "paint"
    /\ IF outcome = "ok"
       THEN /\ canvas' = SetPixel(canvas, prot.call.x, prot.call.y, prot.call.colour)
            /\ prot' = [prot EXCEPT !.pc = "refetch"]
       ELSE /\ canvas' = canvas
            /\ prot' = Excepted("paint", outcome, [prot EXCEPT !.pc = "refetch"])
    /\ UNCHANGED <<now, guard_time, active, callvars, slept, rl_op, painter, fn>>

\* sketch = self.painter.sketch() after a paint().
Refetch(outcome) ==
    /\ prot.pc = "refetch"
    /\ prot' =
         IF outcome = "ok"
         THEN [prot EXCEPT !.pc = "scan", !.k = prot.k + 1, !.sketch = canvas,
                 !.call = "none",
                 !.clean = prot.clean /\ Mismatched(prot.jobs, canvas) = {}]
         ELSE Excepted("sketch", outcome,
                       [prot EXCEPT !.pc = "scan", !.k = prot.k + 1, !.call = "none"])
    /\ UNCHANGED <<now, guard_time, active, callvars, slept, rl_op, painter, fn, canvas>>

\* time.sleep(wait) after the last job, and the next pass begins.
Sleep ==
    /\ prot.pc = "sleep"
    /\ prot' = PassStart(prot.jobs, canvas,
                         IF prot.npaint > 0 THEN 0
                         ELSE IF prot.streak < MaxPasses THEN prot.streak + 1
                         ELSE prot.streak)
    /\ UNCHANGED <<now, guard_time, active, callvars, slept, rl_op, painter, fn, canvas>>

\* Another party paints pixel (x, y) of the canvas.
Vandal(x, y, c) ==
    /\ prot.pc # "crashed"
    /\ prot.vandals < MaxVandal
    /\ SetPixel(canvas, x, y, c) # canvas
    /\ canvas' = SetPixel(canvas, x, y, c)
    /\ prot' = [prot EXCEPT !.vandals = prot.vandals + 1]
    /\ UNCHANGED <<now, guard_time, active, callvars, slept, rl_op, painter, fn>>

NextProt ==
    \/ \E outcome \in {"ok"} \cup PainterErrors : FetchSketch(outcome)
    \/ ScanPixel
    \/ \E outcome \in {"ok"} \cup PainterErrors : PaintReturns(outcome)
    \/ \E outcome \in {"ok"} \cup PainterErrors : Refetch(outcome)
    \/ Sleep
    \/ \E x \in 0..1, y \in 0..1, c \in {ColA, ColB} : Vandal(x, y, c)

SpecProt == InitProt /\ [][NextProt]_vars

\* A step of Protector.activate itself, whatever its calls give back.
ProtStep ==
    \/ \E outcome \in {"ok"} \cup PainterErrors : FetchSketch(outcome)
    \/ ScanPixel
    \/ \E outcome \in {"ok"} \cup PainterErrors : PaintReturns(outcome)
    \/ \E outcome \in {"ok"} \cup PainterErrors : Refetch(outcome)
    \/ Sleep

\* The loop is sequential and each of its calls comes back (an HTTP
\* exchange ends, a sleep is finite): activate() keeps taking steps.  Other
\* parties paint or not, as they like.
SpecProtLive == SpecProt /\ WF_vars(ProtStep)

\* ----------------------------------------------------------------- claims

\* C1: request() reaches the real HTTP request only after activation and
\* after lock() has returned, and then now >= guard_time of its endpoint:
\* the request is never sent while now < guard_time.
C1_RequestNotBeforeGuard ==
    pc = "send" => (now >= guard_time[cur] /\ active[cur])

\* A real request about to be sent after lock() slept through a cooldown.
C1_Witness ==
    pc = "send" /\ slept > 0 /\ CallBinds(kwargs) /\ now >= guard_time[cur]

\* C2: lock() called at t0 with guard_time g0: if t0 < g0 it sleeps exactly
\* g0 - t0 and returns at a time >= g0; otherwise it returns at t0 without
\* sleeping; guard_time is unchanged.  With g0 = 5 (unlock(0, reset 5) at time
\* 0) and t0 = 1 it sleeps 4 and returns at >= 5.
C2_LockWaits ==
    rl_op.name = "lock" =>
        /\ slept = (IF rl_op.t0 < rl_op.g0 THEN rl_op.g0 - rl_op.t0 ELSE 0)
        /\ rl_op.t1 >= rl_op.g0
        /\ rl_op.t1 >= rl_op.t0 + slept
        /\ (rl_op.t0 >= rl_op.g0 => rl_op.t1 = rl_op.t0)
        /\ guard_time[cur] = rl_op.g0
        /\ ((rl_op.g0 = 5 /\ rl_op.t0 = 1) => (slept = 4 /\ rl_op.t1 >= 5))

\* lock() called at time 1 under a guard_time of 5 has slept 4.
C2_Witness ==
    rl_op.name = "lock" /\ rl_op.g0 = 5 /\ rl_op.t0 = 1 /\ slept = 4 /\ now >= 5

\* C3: unlock(remaining, limit, reset) at time t0: remaining = 0 sets
\* guard_time to t0 + reset, any other remaining leaves guard_time as it was,
\* and no value of limit gives another result.
C3_UnlockEffect ==
    rl_op.name = "unlock" =>
        /\ (rl_op.remaining = 0 => guard_time[cur] = rl_op.t0 + rl_op.reset)
        /\ (rl_op.remaining # 0 => guard_time[cur] = rl_op.g0)
        /\ \A l \in Limits :
              unlock(rl_op.g0, rl_op.t0, rl_op.remaining, l, rl_op.reset)
                  = guard_time[cur]

\* unlock(0, 2, reset) with reset > 0 has moved guard_time.
C3_Witness ==
    /\ rl_op.name = "unlock" /\ rl_op.remaining = 0 /\ rl_op.limit = 2
    /\ rl_op.reset > 0 /\ guard_time[cur] # rl_op.g0
    /\ guard_time[cur] = rl_op.t0 + rl_op.reset

\* C9: update_ratelimiter(h) uses the first header set present, in the order
\* (1) requests-remaining + requests-limit + requests-reset, (2)
\* cooldown-reset, (3) retry-after; (2) and (3) act as remaining = 0; with no
\* set present it raises and guard_time is unchanged.
C9_HeaderOrder ==
    rl_op.name = "update_ratelimiter" =>
        LET h == rl_op.h
            g == guard_time[cur]
        IN IF {"requests-remaining", "requests-limit", "requests-reset"} \subseteq DOMAIN h
           THEN /\ ~rl_op.raised
                /\ g = IF h["requests-remaining"] = 0
                       THEN rl_op.t0 + h["requests-reset"] ELSE rl_op.g0
           ELSE IF "cooldown-reset" \in DOMAIN h
           THEN ~rl_op.raised /\ g = rl_op.t0 + h["cooldown-reset"]
           ELSE IF "retry-after" \in DOMAIN h
           THEN ~rl_op.raised /\ g = rl_op.t0 + h["retry-after"]
           ELSE rl_op.raised /\ g = rl_op.g0

\* An incomplete requests-* triple with both other headers: cooldown-reset,
\* not retry-after, has set guard_time.
C9_Witness ==
    /\ rl_op.name = "update_ratelimiter"
    /\ DOMAIN rl_op.h = {"requests-remaining", "cooldown-reset", "retry-after"}
    /\ rl_op.h["cooldown-reset"] # rl_op.h["retry-after"]
    /\ guard_time[cur] = rl_op.t0 + rl_op.h["cooldown-reset"]
    /\ guard_time[cur] # rl_op.g0

\* Whether headers h hold one of the three rate-limit header sets.
HasRateInfo(h) ==
    \/ {"requests-remaining", "requests-limit", "requests-reset"} \subseteq DOMAIN h
    \/ "cooldown-reset" \in DOMAIN h
    \/ "retry-after" \in DOMAIN h

\* The guard_time the spec's rules give for headers h read at time t.
DeclaredGuard(guard, t, h) ==
    IF {"requests-remaining", "requests-limit", "requests-reset"} \subseteq DOMAIN h
    THEN (IF h["requests-remaining"] = 0 THEN t + h["requests-reset"] ELSE guard)
    ELSE IF "cooldown-reset" \in DOMAIN h THEN t + h["cooldown-reset"]
    ELSE IF "retry-after" \in DOMAIN h THEN t + h["retry-after"]
    ELSE guard

Tmr1 == [status |-> "tmr", info |-> TRUE]
Ok1 == [status |-> "ok", info |-> TRUE]

\* C4 as stated: no step ever moves any guard_time to an earlier instant.
C4_GuardNeverDecreases ==
    [][\A e \in Endpoints : guard_time'[e] >= guard_time[e]]_vars

\* C4 amended: guard_time is never moved to an earlier instant by lock() or by
\* the limiter update that follows a real request (resets being >= 0); only
\* an update from an activation probe, which does not wait for the limiter,
\* can move it back.
C4_GuardNeverDecreasesAfterLock ==
    [][pc \notin {"probe1", "probe2"} =>
          \A e \in Endpoints : guard_time'[e] >= guard_time[e]]_vars

\* The response to a real request has put the endpoint into a cooldown that
\* is still running.
C4_Witness ==
    /\ pc = "idle" /\ realLog # <<>> /\ realLog[1].info
    /\ guard_time[cur] > now /\ result \in {"ok", "RatelimitError"}

\* C5 as stated: a finished request() whose first probe was answered 429, and
\* whose second probe (if any) was answered ok with rate-limit headers, has
\* issued exactly two probes, left the endpoint active, issued the real
\* request, and returned its response if that response was ok.
C5_DoubleTry ==
    (/\ pc = "idle" /\ probeLog # <<>> /\ probeLog[1].status = "tmr"
     /\ (Len(probeLog) >= 2 => probeLog[2] = Ok1))
    => /\ Len(probeLog) = 2
       /\ active[cur]
       /\ Len(realLog) = 1
       /\ (realLog[1].status = "ok" => result = "ok")

\* C5 amended: when the 429 answering the first probe carries rate-limit
\* headers, a second probe is issued; when that is answered ok with
\* rate-limit headers, exactly two probes were issued, the endpoint is active
\* and request() goes on to lock() and the real request, which is issued once
\* unless the call passed a headers keyword (then TypeError, C10); request()
\* returns the response when it is ok and carries rate-limit headers.
C5_DoubleTryWithHeaders ==
    /\ (probeLog # <<>> /\ probeLog[1] = Tmr1 /\ pc # "probe2") => Len(probeLog) = 2
    /\ (Len(probeLog) = 2 /\ probeLog[2] = Ok1) =>
          /\ probeLog[1] = Tmr1
          /\ active[cur]
          /\ pc \in {"lock", "send", "idle"}
          /\ (pc = "idle" =>
                \/ /\ Len(realLog) = 1
                   /\ (realLog[1] = Ok1 => result = "ok")
                   /\ (result = "ok" => realLog[1] = Ok1)
                \/ /\ realLog = <<>> /\ result = "TypeError")

\* 429 then ok on the probes, then the real request answered ok: returned.
C5_Witness ==
    /\ pc = "idle" /\ probeLog = <<Tmr1, Ok1>> /\ active[cur]
    /\ realLog = <<Ok1>> /\ result = "ok"

\* Whether the probes of a finished request() failed by status as C6 says.
ActivationFailed ==
    /\ pc = "idle" /\ probeLog # <<>>
    /\ \/ probeLog[1].status = "err"
       \/ /\ Len(probeLog) = 2 /\ probeLog[1].status = "tmr"
          /\ probeLog[2].status \in {"tmr", "err"}

\* C6 as stated: after such a failure request() has raised HTTPError, sent no
\* real request and left the endpoint inactive; never more than two probes.
C6_ActivationFailure ==
    /\ Len(probeLog) <= 2
    /\ ActivationFailed =>
          (result = "HTTPError" /\ realLog = <<>> /\ ~active[cur])

\* C6 amended: as stated, except that the error is KeyError, not HTTPError,
\* when the failing second probe is a 429 without rate-limit headers.  A
\* request() past its probes is on an active endpoint, so after a failure the
\* next request() probes again.
C6_ActivationFailureOrKeyError ==
    /\ Len(probeLog) <= 2
    /\ (pc \in {"probe1", "probe2"} => ~active[cur])
    /\ (pc \in {"lock", "send"} => active[cur])
    /\ ActivationFailed =>
          /\ result = (IF probeLog[Len(probeLog)] = [status |-> "tmr", info |-> FALSE]
                       THEN "KeyError" ELSE "HTTPError")
          /\ realLog = <<>>
          /\ ~active[cur]

\* Two 429 probes, both with rate-limit headers: HTTPError, still inactive.
C6_Witness ==
    /\ pc = "idle" /\ probeLog = <<Tmr1, Tmr1>> /\ result = "HTTPError"
    /\ realLog = <<>> /\ ~active[cur]

C8_TmrUpdatesThenSignals ==
    [][\A r \in Responses, d \in 0..MaxDelay :
          (Send(r, d) /\ r.status = "tmr") =>
             /\ result' = "RatelimitError"
             /\ guard_time'[cur] = DeclaredGuard(guard_time[cur], now', r.headers)
             /\ pc' = "idle" /\ Len(realLog') = 1]_vars

\* C8 amended: as stated when the 429 carries one of the three header sets;
\* a 429 without any raises KeyError instead and leaves guard_time as it was.
\* In every case request() ends after its one real request.
C8_TmrUpdatesThenSignalsOrKeyError ==
    [][\A r \in Responses, d \in 0..MaxDelay :
          Send(r, d) =>
             /\ pc' = "idle" /\ Len(realLog') = 1 /\ realLog = <<>>
             /\ r.status = "tmr" =>
                   IF HasRateInfo(r.headers)
                   THEN /\ result' = "RatelimitError"
                        /\ guard_time'[cur] = DeclaredGuard(guard_time[cur], now', r.headers)
                   ELSE /\ result' = "KeyError"
                        /\ guard_time'[cur] = guard_time[cur]]_vars

\* A real request answered 429 with a cooldown: signalled, cooldown running.
C8_Witness ==
    /\ pc = "idle" /\ realLog = <<Tmr1>> /\ result = "RatelimitError"
    /\ guard_time[cur] > now

\* C10: a request() that passed call-specific headers and has reached the
\* real request sends it once, with the default headers updated by the
\* call-specific ones, and then ends as a call without them does.
C10_UnionOfHeadersSent ==
    [][(pc = "send" /\ "headers" \in DOMAIN kwargs) =>
          /\ Len(realLog') = 1
          /\ wire' = DictUpdate(EndpointHeaders[cur], kwargs["headers"])
          /\ result' # "TypeError"]_vars
\* C15: for a Sketch with len(content) = width * height * 3, sketch[x, y]
\* with 0 <= x < width and 0 <= y < height is the colour of the three bytes
\* at offset (x + width * y) * 3; for -width <= x < 0 it equals
\* sketch[x + width, y], for -height <= y < 0 it equals sketch[x, y + height],
\* so sketch[-1, -1] = sketch[width - 1, height - 1].
C15_SketchLookup ==
    (fn.op = "getitem" /\ fn.done) =>
        LET s == fn.sketch
            w == s.width
            h == s.height
            x == fn.x
            y == fn.y
            off == (x + w * y) * 3
        IN /\ Len(s.content) = w * h * 3
           /\ (x \in 0..(w - 1) /\ y \in 0..(h - 1)) =>
                  fn.out = Returned([r |-> s.content[off + 1],
                                     g |-> s.content[off + 2],
                                     b |-> s.content[off + 3]])
           /\ (x \in -w..(-1) /\ y \in -h..(h - 1)) =>
                  (fn.out.exc = "none" /\ fn.out = getitem(s, x + w, y))
           /\ (y \in -h..(-1) /\ x \in -w..(w - 1)) =>
                  (fn.out.exc = "none" /\ fn.out = getitem(s, x, y + h))
           /\ (x = -1 /\ y = -1) => fn.out = getitem(s, w - 1, h - 1)

\* sketch[-1, -1] of a 2 x 2 Sketch was read: the pixel at byte offset 9.
C15_Witness ==
    /\ fn.op = "getitem" /\ fn.done
    /\ fn.sketch.width = 2 /\ fn.sketch.height = 2
    /\ fn.x = -1 /\ fn.y = -1
    /\ fn.out = Returned([r |-> fn.sketch.content[10], g |-> fn.sketch.content[11],
                          b |-> fn.sketch.content[12]])

\* C16: for every 6-digit hex string s, of either case,
\* Colour.from_hex(s).hex() is s in upper case; for every colour c with
\* channels in 0..255, Colour.from_triple(c.tuple()) equals c.
C16_ColourRoundTrips ==
    fn.done =>
        /\ fn.op = "from_hex.hex" => fn.out = Returned(Upper(fn.arg))
        /\ fn.op = "tuple.from_triple" => fn.out = Returned(fn.arg)

\* from_hex("0a0Ff9").hex() gave "0A0FF9": digits of both cases, and a
\* channel below 16.
C16_Witness ==
    /\ fn.op = "from_hex.hex" /\ fn.done
    /\ fn.arg = <<"0", "a", "0", "A", "f", "9">>
    /\ fn.out = Returned(<<"0", "A", "0", "A", "F", "9">>)

\* C11: paint(x, y, colour) with check: when the pre-check colour(x, y)
\* succeeds and gives the target colour, paint returns without any probe or
\* request on the write endpoint, whose active flag and guard_time are as
\* they were; without check no read-pixel request is issued at all.
C11_PaintShortCircuit ==
    painter.op = "paint" =>
        /\ painter.pre = "equal" =>
              /\ painter.out = "short_circuit" /\ painter.at = "done"
              /\ "set_pixel" \notin painter.touched
              /\ WriteState = painter.w0
        /\ painter.at = "precheck" =>
              /\ WriteState = painter.w0
              /\ pc # "idle" => cur = "get_pixel"
        /\ ~painter.check =>
              /\ "get_pixel" \notin painter.touched
              /\ pc # "idle" => cur = "set_pixel"

\* A checked paint() returned on an equal pixel while the write endpoint
\* was already active and under a cooldown.
C11_Witness ==
    /\ painter.op = "paint" /\ painter.check /\ painter.pre = "equal"
    /\ painter.out = "short_circuit"
    /\ active["set_pixel"] /\ guard_time["set_pixel"] > now

\* C12: paint() with check: any failure of the pre-check read (network
\* failure, 429, other error status, failed activation, missing rate-limit
\* headers) is swallowed, not propagated out of paint, and the write request
\* is then still attempted through the write endpoint.
C12_PrecheckFailureSwallowed ==
    (painter.op = "paint" /\ painter.check
        /\ painter.pre \in {"ConnectionError", "RatelimitError", "HTTPError", "KeyError"})
    => (painter.at \in {"write", "done"} /\ "set_pixel" \in painter.touched)

\* C13: the three Painter endpoints are independent: a probe, request or
\* response on one leaves guard_time and the active flag of the other two
\* unchanged; lock() sleeps for the guard_time of its own endpoint only, so a
\* cooldown on the write endpoint never delays colour() or sketch(); and
\* size() neither waits on nor modifies any limiter.
C13_EndpointsIndependent ==
    [][/\ \A e \in Endpoints :
            e # cur' => (guard_time'[e] = guard_time[e] /\ active'[e] = active[e])
       /\ (pc = "lock" /\ pc' = "send") =>
            /\ slept' = (IF now < guard_time[cur] THEN guard_time[cur] - now ELSE 0)
            /\ now' - now <= slept' + MaxDelay
            /\ slept' = 0 => now' = now
       /\ (painter.at = "size" /\ painter'.at = "done") =>
            /\ guard_time' = guard_time /\ active' = active
            /\ now' - now <= MaxDelay]_vars

\* colour() reached its request without sleeping while the write endpoint
\* is under a cooldown.
C13_Witness ==
    /\ pc = "send" /\ cur = "get_pixel" /\ slept = 0
    /\ painter.op = "colour"
    /\ active["set_pixel"] /\ guard_time["set_pixel"] > now

\* C14: every Sketch returned by sketch() has len(content) = width *
\* height * 3, also when the remote canvas is resized by another party
\* between the /get_pixels request and the /get_size request.
C14_SketchConsistent ==
    (painter.op = "sketch" /\ painter.out = "returned") =>
        Len(painter.val.content) = painter.val.width * painter.val.height * 3

\* C17: when every sketch fetched in a pass already shows the goal colour
\* for every job and every image pixel with alpha != 0, the pass issues no
\* painter.paint call at all, in every one of any number of consecutive
\* passes.
C17_Idempotent ==
    (prot.pc \in {"fetch", "scan", "paint", "refetch", "sleep"} /\ prot.clean)
        => (prot.npaint = 0 /\ prot.pc \notin {"paint", "refetch"})

\* A pass over two jobs ended without a paint() call after MaxPasses such
\* passes, every sketch showing every goal.
C17_Witness ==
    /\ prot.pc = "sleep" /\ Len(prot.jobs) = 2
    /\ prot.clean /\ prot.npaint = 0 /\ prot.streak = MaxPasses
    /\ Mismatched(prot.jobs, prot.sketch) = {}

\* C18: every painter.paint call is for the coordinate (originX + x,
\* originY + y), a negative origin component first resolved by adding the
\* sketch width or height, of an image pixel with alpha != 0 whose colour in
\* the snapshot differs from its RGB goal, and passes that goal; a pixel with
\* alpha = 0 is never painted; with exactly one mismatched opaque pixel and an
\* otherwise stable canvas a full pass issues exactly one paint call.
C18_RepairTargeting ==
    /\ prot.pc = "paint" =>
          LET job == prot.jobs[prot.j]
              y == prot.k \div job.image.w
              x == prot.k % job.image.w
              p == ImagePixel(job.image, y, x)
              ox == IF job.origin[1] < 0 THEN prot.sketch.width + job.origin[1]
                    ELSE job.origin[1]
              oy == IF job.origin[2] < 0 THEN prot.sketch.height + job.origin[2]
                    ELSE job.origin[2]
          IN /\ prot.k < job.image.h * job.image.w
             /\ p.a # 0
             /\ prot.call.x = ox + x /\ prot.call.y = oy + y
             /\ prot.call.colour = [r |-> p.r, g |-> p.g, b |-> p.b]
             /\ getitem(prot.sketch, prot.call.x, prot.call.y)
                    # Returned(prot.call.colour)
    /\ (prot.pc = "sleep" /\ prot.single /\ prot.vandals = 0) => prot.npaint = 1

\* A pass that began with exactly one mismatched pixel, under a job with a
\* negative origin, ended after exactly one paint() call on a canvas nobody
\* else touched.
C18_Witness ==
    /\ prot.pc = "sleep" /\ prot.single /\ prot.vandals = 0 /\ prot.npaint = 1
    /\ prot.jobs = <<JobColumn, JobDot>>
    /\ Mismatched(prot.jobs, canvas) = {}

\* C19: if painter.sketch() fails (network or HTTP error) for job A, the
\* Protector logs it and skips job A for this pass without raising: it goes
\* on to the following job B, then reaches the sleep between passes.
C19_SketchFailureSkipsJob ==
    ~(prot.pc = "crashed" /\ prot.cause.call = "sketch" /\ prot.cause.pc = "fetch")

\* C20: the Protector loop never stops: no error surfaced by painter.paint
\* or painter.sketch terminates Protector.activate.
C20_LoopNeverStops ==
    prot.pc \in {"fetch", "scan", "paint", "refetch", "sleep"}

\* The coordinates of the canvas, and the state of the Protector's paint()
\* call for coordinate c.
Coords == (0..1) \X (0..1)
PaintingAt(c) ==
    prot.pc = "paint" /\ prot.call.x = c[1] /\ prot.call.y = c[2]

\* C21: if another party overwrites a canvas pixel covered by an opaque
\* pixel of some job then, provided the later sketch() and paint() calls
\* succeed, the canvas pixel eventually equals the goal again; and the pixel
\* gets back to its goal only by a paint() of the Protector for that
\* coordinate with the goal colour or by another party's painting, so that
\* when the other party stops it is the Protector that paints it.
C21_SelfHealing ==
    /\ \A c \in Coords :
          [](prot.pc # "crashed")
              => ((c \in Mismatched(prot.jobs, canvas))
                    ~> (c \notin Mismatched(prot.jobs, canvas)))
    /\ [][\A c \in Coords :
            (c \in Mismatched(prot.jobs, canvas) /\ c \notin Mismatched(prot.jobs, canvas'))
                => \/ /\ PaintingAt(c)
                       /\ getitem(canvas', c[1], c[2]) = Returned(prot.call.colour)
                   \/ prot'.vandals = prot.vandals + 1]_vars

\* After MaxPasses passes without a paint another party painted one pixel,
\* the Protector painted it back and the canvas shows every goal again.
C21_Witness ==
    /\ prot.pc = "refetch" /\ prot.streak = MaxPasses /\ prot.vandals = 1
    /\ prot.npaint = 1
    /\ getitem(canvas, prot.call.x, prot.call.y) = Returned(prot.call.colour)
    /\ Mismatched(prot.jobs, canvas) = {}

\* The image pixel b is the one after a in row-major raster order over an
\* image w wide: the first one when no pixel was looked at yet.
RasterNext(a, b, w) ==
    IF a = NoPixel THEN b = <<0, 0>>
    ELSE \/ (a[1] + 1 < w /\ b = <<a[1] + 1, a[2]>>)
         \/ (a[1] + 1 = w /\ b = <<0, a[2] + 1>>)

\* C22: within one pass the jobs are processed in the order given, and
\* within one job the image pixels are compared (and, if needed, painted) in
\* row-major raster order, (x, y) before (x', y') whenever y < y', or y = y'
\* and x < x'; no pixel is handled twice in one pass over one job.
C22_RasterOrder ==
    [][LET image == prot.jobs[prot.j].image
       IN prot'.pc # "crashed" =>
            /\ prot'.jobs = prot.jobs
            /\ \/ /\ prot'.j = prot.j /\ prot.pc # "sleep"
                  /\ prot'.pc \in {"scan", "paint", "refetch"}
                  /\ prot'.at = prot.at \/ RasterNext(prot.at, prot'.at, image.w)
                  /\ prot'.at # NoPixel =>
                        (prot'.at[1] < image.w /\ prot'.at[2] < image.h)
               \/ /\ prot.pc = "scan" /\ prot'.pc = "fetch"
                  /\ prot'.j = prot.j + 1
                  /\ prot.at = <<image.w - 1, image.h - 1>> /\ prot'.at = NoPixel
               \/ /\ prot.pc = "scan" /\ prot'.pc = "sleep"
                  /\ prot.j = Len(prot.jobs) /\ prot'.j = prot.j
                  /\ prot.at = <<image.w - 1, image.h - 1>> /\ prot'.at = NoPixel
               \/ /\ prot.pc = "sleep" /\ prot'.pc = "fetch"
                  /\ prot'.j = 1 /\ prot'.at = NoPixel
               \/ /\ prot.pc = "fetch" /\ prot'.pc = "fetch"
                  /\ prot' = [prot EXCEPT !.vandals = prot.vandals + 1]
               \/ /\ prot.pc = "sleep" /\ prot'.pc = "sleep"
                  /\ prot' = [prot EXCEPT !.vandals = prot.vandals + 1]
            /\ prot'.pc = "paint" =>
                  /\ prot'.call.x = prot'.origin[1] + prot'.at[1]
                  /\ prot'.call.y = prot'.origin[2] + prot'.at[2]]_vars

\* The scan of the 2 x 2 image has handled its last pixel, (1, 1), after
\* painting at least one pixel on the way.
C22_Witness ==
    /\ prot.pc = "scan" /\ prot.jobs = <<JobSquare>>
    /\ prot.k = 4 /\ prot.at = <<1, 1>> /\ prot.npaint > 0

\* C23: after every painter.paint attempt of the Protector, whether it
\* succeeded or failed, a fresh painter.sketch() is requested before the next
\* pixel is compared, and the later comparisons of the job use the refreshed
\* snapshot when that fetch succeeded.
C23_RefetchAfterPaint ==
    [][/\ prot.pc = "paint" =>
            (prot'.pc = "refetch" \/ (prot'.pc = "paint" /\ prot'.k = prot.k))
       /\ (prot.pc = "refetch" /\ prot'.pc = "scan") =>
            (prot'.sketch = canvas /\ prot'.k = prot.k + 1)
       /\ (prot.pc = "scan" /\ prot'.pc \in {"scan", "paint"} /\ prot'.j = prot.j) =>
            prot'.sketch = prot.sketch]_vars

\* C24: the active flag of an Endpoint is monotone and justified: an
\* endpoint starts inactive, becomes active only on an activation probe of
\* its own answered ok whose rate-limit headers were applied to its limiter,
\* never returns to inactive, and no request() on an active endpoint issues
\* an activation probe, whatever responses (429, other errors) follow.
C24_ActiveMonotone ==
    /\ \A e \in Endpoints : ~active[e]
    /\ [][/\ \A e \in Endpoints :
               /\ active[e] => active'[e]
               /\ (~active[e] /\ active'[e]) =>
                     /\ pc \in {"probe1", "probe2"} /\ pc' = "lock"
                     /\ cur = e /\ cur' = e
                     /\ probeLog' = Append(probeLog, Ok1)
                     /\ \E r \in Responses :
                           /\ r.status = "ok" /\ HasRateInfo(r.headers)
                           /\ guard_time'[e] =
                                 DeclaredGuard(guard_time[e], now', r.headers)
          /\ pc' \in {"probe1", "probe2"} => ~active'[cur']
          /\ active[cur'] => (probeLog' = <<>> \/ probeLog' = probeLog)
          /\ (pc = "idle" /\ pc' # "idle" /\ active[cur']) => pc' = "lock"]_vars

\* A request() on an active endpoint, issued without a probe, was answered
\* 429 and the endpoint is still active.
C24_Witness ==
    /\ pc = "idle" /\ result = "RatelimitError" /\ active[cur]
    /\ probeLog = <<>> /\ realLog = <<Tmr1>>

\* C25: activation probes bypass the limiter: activate() never calls
\* lock(), so a probe of request() on an inactive endpoint is issued whatever
\* guard_time is and takes the time of its HTTP exchange only, the second
\* probe after a 429 included, which does not wait for the guard_time the
\* 429's headers just set; only the real request waits for it.
C25_ProbesBypassLimiter ==
    [][/\ pc \in {"probe1", "probe2"} =>
            /\ now' - now <= MaxDelay
            /\ slept' = 0
            /\ probeLog' # probeLog => Len(probeLog') = Len(probeLog) + 1
       /\ (pc = "probe1" /\ pc' = "probe2") =>
            probeLog'[Len(probeLog')].status = "tmr"
       /\ (pc = "lock" /\ pc' = "send") => now' >= guard_time[cur]]_vars

\* The second probe after a 429 was issued and answered while the
\* guard_time set by the 429 was still ahead by more than an exchange.
C25_Witness ==
    /\ pc = "idle" /\ result = "HTTPError"
    /\ probeLog = <<Tmr1, [status |-> "err", info |-> FALSE]>>
    /\ guard_time[cur] > now + MaxDelay

====
